---- MODULE Spec2Model ----
(***************************************************************************)
(* NetKeyer cw-monitor-dnn: the training-loop controller (train_model of   *)
(* train_morse_model_v3.py; the v1 and v2 loops are the same code without  *)
(* the learning-rate scheduler) and the data pipeline that feeds the       *)
(* sequence model (generator main, load_and_prepare_data,                  *)
(* prepare_sequence_data).                                                 *)
(***************************************************************************)
EXTENDS Integers, Sequences, FiniteSets, TLC

(* ------------------------------- bounds -------------------------------- *)
\* largest epoch budget passed to train_model
MaxEpochs == 8
\* largest early-stopping patience passed to train_model
MaxPatience == 6
\* parameter tensors take the values 0..MaxParam
MaxParam == 1
\* finite validation losses are LossBase - k, k in 0..MaxLossSteps
MaxLossSteps == 3

\* most rows the generator's two runs produce together
MaxCorpus == 4
\* longest stream handed to prepare_sequence_data on its own
MaxStream == 5
\* largest sequence_length
MaxSeqLen == 3

(* ----------------------- floats, as the loop uses them ----------------- *)
\* ReduceLROnPlateau's default relative threshold 1e-4, as 1/ThresholdDenom
ThresholdDenom == 10000
\* the largest finite loss: LossBase - 1 and LossBase - 2 do not improve on
\* it by more than the relative threshold, LossBase - 3 does
LossBase == 2 * ThresholdDenom
\* a python float is finite, +inf or nan
Fin(x) == [kind |-> "fin", v |-> x]
PosInf == [kind |-> "inf", v |-> 0]
NaN == [kind |-> "nan", v |-> 0]
IsFinite(a) == a.kind = "fin"
FiniteLosses == {Fin(LossBase - k) : k \in 0..MaxLossSteps}
LossVals == FiniteLosses \cup {PosInf, NaN}

\* a mutant of FloatLt: `>` in place of `<`
FloatGt(a, b) ==
    /\ a.kind # "nan"
    /\ b.kind # "nan"
    /\ \/ a.kind = "fin" /\ b.kind = "fin" /\ a.v > b.v
       \/ a.kind = "inf" /\ b.kind = "fin"

\* a mutant of FloatLt: `<=` in place of `<`
FloatLe(a, b) ==
    /\ a.kind # "nan"
    /\ b.kind # "nan"
    /\ \/ a.kind = "fin" /\ b.kind = "fin" /\ a.v <= b.v
       \/ a.kind = "fin" /\ b.kind = "inf"
       \/ a.kind = "inf" /\ b.kind = "inf"

\* python's a < b on floats: every comparison with nan is False
FloatLt(a, b) ==
    /\ a.kind # "nan"
    /\ b.kind # "nan"
    /\ \/ a.kind = "fin" /\ b.kind = "fin" /\ a.v < b.v
       \/ a.kind = "fin" /\ b.kind = "inf"

(* ------------------------------- state --------------------------------- *)
VARIABLES
    epochs,            \* train_model's epoch budget
    patience,          \* train_model's early-stopping patience
    pc,                \* position in train_model
    epoch,             \* the for loop's index
    heap,              \* tensor storage: address -> parameter value
    val_loss,          \* the epoch's mean validation loss
    history_len,       \* number of entries appended to history['val_loss']
    best_val_loss,
    patience_counter,
    best_model_state,  \* None, or a dict of tensor addresses
    exit,              \* how the for loop was left: "none", "break", "exhausted"
    lr_halvings,       \* optimizer lr = 0.001 * 0.5^lr_halvings
    sched_best,        \* scheduler.best
    num_bad_epochs,    \* scheduler.num_bad_epochs
    seen_min,          \* observer: least finite validation loss so far
    seen_min_params,   \* observer: parameters at the end of that epoch
    seen_since,        \* observer: epochs since the loss last fell strictly
    seen_plateau_best, \* observer: last loss that improved past the threshold
    seen_plateau,      \* observer: epochs in a row without such an improvement
    stage,             \* position in the data pipeline
    csv,               \* rows of morse_training_data_v3_combined.csv
    X_train, y_train,  \* load_and_prepare_data's training split
    X_test, y_test,    \* load_and_prepare_data's test split
    scaler,            \* the StandardScaler it returns: the rows it was fit on
    X_train_split,     \* main's training part of X_train
    X_val_split,       \* main's validation part of X_train
    sequence_length,
    X_train_seq, y_train_seq,  \* prepare_sequence_data's windows and targets
    X_test_seq, y_test_seq,
    generator,         \* the generator function called, or "off"
    gen_pc,            \* position in it
    num,               \* num_samples / num_characters
    wpm_range,         \* v3: (min_wpm, max_wpm)
    base_dit_ms,       \* v2: base dit duration
    gen_i,             \* the outer for loop's index
    current_wpm,       \* v3: the operator's speed
    current_dit,       \* v2: the operator's dit duration
    pattern,           \* sequence generators: morse_code[char]
    sym_j,             \* sequence generators: index into pattern
    last_row,          \* data[-1], or None while data = []
    seen_prev_label,   \* observer: label of data[-2], or -1
    seen_wpm,          \* observer: speed the last row was generated at
    seen_units,        \* observer: timing units of the last row
    seen_base,         \* observer: duration of the last row before jitter
    seen_draws,        \* observer: calls of random.uniform so far
    seen_block_wpm,    \* observer: speed of the first row of the cadence block
    seen_chars,        \* observer: characters completed
    char_rows,         \* observer: labels emitted for the current character
    df,                \* validate_timing_standards' argument: rows of the corpus
    val_pc,            \* position in validate_timing_standards
    val_label,         \* its first for loop's index
    results,           \* its dict: label -> mean and count
    dit_mean,
    ratio,             \* the ratio printed for each label in results
    ratios,            \* dah_ratio, letter_ratio, word_ratio
    valid,             \* dah_valid, letter_valid, word_valid
    val_return,        \* the value returned, or None
    corpus_wpm,        \* observer: the speed df was generated at
    corpus_jitter      \* observer: "zero" if every multiplier of df was 1,
                       \* "hand" if df is not a generator's

trainVars == <<epochs, patience, pc, epoch, heap, val_loss, history_len,
               best_val_loss, patience_counter, best_model_state, exit,
               lr_halvings, sched_best, num_bad_epochs>>
seenVars == <<seen_min, seen_min_params, seen_since,
              seen_plateau_best, seen_plateau>>
pipeVars == <<stage, csv, X_train, y_train, X_test, y_test, scaler,
              X_train_split, X_val_split, sequence_length,
              X_train_seq, y_train_seq, X_test_seq, y_test_seq>>
genVars == <<generator, gen_pc, num, wpm_range, base_dit_ms, gen_i,
             current_wpm, current_dit, pattern, sym_j, last_row,
             seen_prev_label, seen_wpm, seen_units, seen_base, seen_draws,
             seen_block_wpm, seen_chars, char_rows>>
valVars == <<df, val_pc, val_label, results, dit_mean, ratio, ratios, valid,
             val_return, corpus_wpm, corpus_jitter>>
vars == <<trainVars, seenVars, pipeVars, genVars, valVars>>

None == [kind |-> "none"]
\* the address of the model's parameter tensor
ModelTensor == "model.param"
ParamVals == 0..MaxParam

(* ------------------- torch objects used by train_model ----------------- *)
\* model.state_dict(): a dict whose values are the model's own tensors
state_dict == [kind |-> "dict", param |-> ModelTensor]
\* dict.copy(): a new dict holding the same values (a shallow copy)
DictCopy(d) == d
\* the parameter values a state dict holds now
Contents(d) == heap[d.param]
\* model.load_state_dict(d): copy d's tensor into the model's tensor
load_state_dict(d) == [heap EXCEPT ![ModelTensor] = heap[d.param]]

\* scheduler patience=5 and the lr floor: min_lr 0, eps 1e-8 on lr0 0.001
SchedPatience == 5
\* old_lr - new_lr > eps, with lr = 1e-3 / 2^k: 1e-3 / 2^(k+1) > 1e-8
LrStepAboveEps(k) == 2^(k + 1) < 100000

\* a mutant of is_better: no relative threshold (a < best)
is_better_strict(a, best) == FloatLt(a, best)

\* ReduceLROnPlateau.is_better, mode 'min', threshold_mode 'rel':
\* a < best * (1 - threshold)
is_better(a, best) ==
    /\ a.kind = "fin"
    /\ \/ best.kind = "inf"
       \/ best.kind = "fin" /\ a.v * ThresholdDenom < best.v * (ThresholdDenom - 1)

(* -------------------------------- Init --------------------------------- *)
\* train_model's locals before the loop, for a call train_model(e, p) at
\* position at
TrainLocals(at) ==
    /\ pc = at
    /\ epoch = 0
    /\ heap \in [{ModelTensor} -> ParamVals]
    /\ val_loss = None
    /\ history_len = 0
    /\ best_val_loss = PosInf
    /\ patience_counter = 0
    /\ best_model_state = None
    /\ exit = "none"
    /\ lr_halvings = 0
    /\ sched_best = PosInf
    /\ num_bad_epochs = 0
    /\ seen_min = PosInf
    /\ seen_min_params = None
    /\ seen_since = 0
    /\ seen_plateau_best = PosInf
    /\ seen_plateau = 0

\* the data pipeline before anything ran, at position at
PipeEmpty(at) ==
    /\ stage = at
    /\ csv = <<>>
    /\ X_train = <<>>
    /\ y_train = <<>>
    /\ X_test = <<>>
    /\ y_test = <<>>
    /\ scaler = None
    /\ X_train_split = <<>>
    /\ X_val_split = <<>>
    /\ X_train_seq = <<>>
    /\ y_train_seq = <<>>
    /\ X_test_seq = <<>>
    /\ y_test_seq = <<>>

\* a generator's locals on entry: data = []
GenLocals(at) ==
    /\ gen_pc = at
    /\ gen_i = 0
    /\ current_wpm = None
    /\ current_dit = None
    /\ pattern = <<>>
    /\ sym_j = 0
    /\ last_row = None
    /\ seen_prev_label = 0 - 1
    /\ seen_wpm = None
    /\ seen_units = None
    /\ seen_base = None
    /\ seen_draws = 0
    /\ seen_block_wpm = None
    /\ seen_chars = 0
    /\ char_rows = <<>>

\* validate_timing_standards' locals on entry, at position at
ValLocals(at) ==
    /\ val_pc = at
    /\ val_label = 0
    /\ results = <<>>
    /\ dit_mean = None
    /\ ratio = <<>>
    /\ ratios = None
    /\ valid = None
    /\ val_return = None

\* the validator is not running
ValOff ==
    /\ df = <<>>
    /\ corpus_wpm = None
    /\ corpus_jitter = "zero"
    /\ ValLocals("off")

\* no generator is running
GenOff ==
    /\ generator = "off"
    /\ num = 0
    /\ wpm_range = None
    /\ base_dit_ms = None
    /\ GenLocals("off")

\* a call of train_model with any budget and any patience >= 1
Init ==
    /\ epochs \in 0..MaxEpochs
    /\ patience \in 1..MaxPatience
    /\ TrainLocals("for")
    /\ sequence_length = 0
    /\ PipeEmpty("off")
    /\ GenOff
    /\ ValOff

(* --------------------------- train_model ------------------------------- *)
\* a mutant of ForLoop: an exhausted loop returns at once, past the restore
ForLoopSkipsRestore ==
    /\ pc = "for"
    /\ \/ /\ epoch < epochs
          /\ pc' = "train"
          /\ exit' = exit
       \/ /\ epoch >= epochs
          /\ pc' = "done"
          /\ exit' = "exhausted"
    /\ UNCHANGED <<epochs, patience, epoch, heap, val_loss, history_len,
                   best_val_loss, patience_counter, best_model_state,
                   lr_halvings, sched_best, num_bad_epochs>>
    /\ UNCHANGED seenVars
    /\ UNCHANGED <<pipeVars, genVars, valVars>>

\* for epoch in range(epochs): enter the next epoch, or leave the loop
ForLoop ==
    /\ pc = "for"
    /\ \/ /\ epoch < epochs
          /\ pc' = "train"
          /\ exit' = exit
       \/ /\ epoch >= epochs
          /\ pc' = "restore"
          /\ exit' = "exhausted"
    /\ UNCHANGED <<epochs, patience, epoch, heap, val_loss, history_len,
                   best_val_loss, patience_counter, best_model_state,
                   lr_halvings, sched_best, num_bad_epochs>>
    /\ UNCHANGED seenVars
    /\ UNCHANGED <<pipeVars, genVars, valVars>>

\* the training phase: optimizer.step() updates the model's tensors in place
TrainingPhase ==
    /\ pc = "train"
    /\ \E p \in ParamVals : heap' = [heap EXCEPT ![ModelTensor] = p]
    /\ pc' = "validate"
    /\ UNCHANGED <<epochs, patience, epoch, val_loss, history_len,
                   best_val_loss, patience_counter, best_model_state, exit,
                   lr_halvings, sched_best, num_bad_epochs>>
    /\ UNCHANGED seenVars
    /\ UNCHANGED <<pipeVars, genVars, valVars>>

\* The observer's record of one more validation loss v, written without the
\* loop's own comparisons: the least finite loss and the parameters at the
\* end of its epoch, the epochs since the loss last fell strictly, and the
\* length of the current plateau (epochs in a row that did not improve on
\* the plateau's reference by more than the relative threshold; a plateau
\* of SchedPatience + 1 epochs is complete and the next epoch starts anew).
Observe(v) ==
    LET falls == v.kind = "fin" /\ (seen_min.kind = "inf" \/ v.v < seen_min.v)
        clears == /\ v.kind = "fin"
                  /\ \/ seen_plateau_best.kind = "inf"
                     \/ v.v * ThresholdDenom
                           < seen_plateau_best.v * (ThresholdDenom - 1)
    IN  /\ seen_min' = IF falls THEN v ELSE seen_min
        /\ seen_min_params' =
              IF falls THEN [kind |-> "params", value |-> heap[ModelTensor]]
              ELSE seen_min_params
        /\ seen_since' = IF falls THEN 0 ELSE seen_since + 1
        /\ seen_plateau_best' = IF clears THEN v ELSE seen_plateau_best
        /\ seen_plateau' =
              IF clears THEN 0
              ELSE IF seen_plateau = SchedPatience + 1 THEN 1
              ELSE seen_plateau + 1

\* the validation phase and the metrics, the epoch's loss being v: no
\* parameter changes, one entry appended to each list of history
Validate(v) ==
    /\ pc = "validate"
    /\ val_loss' = v
    /\ Observe(v)
    /\ history_len' = history_len + 1
    /\ pc' = "scheduler"
    /\ UNCHANGED <<epochs, patience, epoch, heap, best_val_loss,
                   patience_counter, best_model_state, exit, lr_halvings,
                   sched_best, num_bad_epochs>>
    /\ UNCHANGED <<pipeVars, genVars, valVars>>

\* the validation loss is any float
ValidationPhase == \E v \in LossVals : Validate(v)

\* a mutant of ReduceNow: a scheduler patience of twice the length
ReduceNowLate(bad) == bad > 2 * SchedPatience

\* a mutant of ReduceNow: reduce when the count reaches the patience
ReduceNowAtPatience(bad) == bad >= SchedPatience

\* ReduceLROnPlateau.step: if self.num_bad_epochs > self.patience
ReduceNow(bad) == bad > SchedPatience

\* a mutant of SchedulerStep: a reduction also resets the stall counter
SchedulerStepCoupled ==
    /\ pc = "scheduler"
    /\ LET better == is_better(val_loss, sched_best)
           bad == IF better THEN 0 ELSE num_bad_epochs + 1
       IN  /\ sched_best' = IF better THEN val_loss ELSE sched_best
           /\ num_bad_epochs' = IF ReduceNow(bad) THEN 0 ELSE bad
           /\ lr_halvings' =
                 IF ReduceNow(bad) /\ LrStepAboveEps(lr_halvings)
                 THEN lr_halvings + 1 ELSE lr_halvings
           /\ patience_counter' = IF ReduceNow(bad) THEN 0 ELSE patience_counter
    /\ pc' = "early_stopping"
    /\ UNCHANGED <<epochs, patience, epoch, heap, val_loss, history_len,
                   best_val_loss, best_model_state, exit>>
    /\ UNCHANGED seenVars
    /\ UNCHANGED <<pipeVars, genVars, valVars>>

\* scheduler.step(val_loss): count a bad epoch or record a better best,
\* halve the lr when the count exceeds the patience, then reset the count
SchedulerStep ==
    /\ pc = "scheduler"
    /\ LET better == is_better(val_loss, sched_best)
           bad == IF better THEN 0 ELSE num_bad_epochs + 1
       IN  /\ sched_best' = IF better THEN val_loss ELSE sched_best
           /\ num_bad_epochs' = IF ReduceNow(bad) THEN 0 ELSE bad
           /\ lr_halvings' =
                 IF ReduceNow(bad) /\ LrStepAboveEps(lr_halvings)
                 THEN lr_halvings + 1 ELSE lr_halvings
    /\ pc' = "early_stopping"
    /\ UNCHANGED <<epochs, patience, epoch, heap, val_loss, history_len,
                   best_val_loss, patience_counter, best_model_state, exit>>
    /\ UNCHANGED seenVars
    /\ UNCHANGED <<pipeVars, genVars, valVars>>

\* a mutant of PatienceReached: one epoch late
PatienceExceeded(c, p) == c > p

\* if patience_counter >= patience
PatienceReached(c, p) == c >= p

\* the early-stopping block at the end of the epoch
EarlyStopping ==
    /\ pc = "early_stopping"
    /\ \/ /\ FloatLt(val_loss, best_val_loss)
          /\ best_val_loss' = val_loss
          /\ patience_counter' = 0
          /\ best_model_state' = DictCopy(state_dict)
          /\ epoch' = epoch + 1
          /\ pc' = "for"
          /\ exit' = exit
       \/ /\ ~FloatLt(val_loss, best_val_loss)
          /\ patience_counter' = patience_counter + 1
          /\ ~PatienceReached(patience_counter + 1, patience)
          /\ epoch' = epoch + 1
          /\ pc' = "for"
          /\ UNCHANGED <<best_val_loss, best_model_state, exit>>
       \/ /\ ~FloatLt(val_loss, best_val_loss)
          /\ patience_counter' = patience_counter + 1
          /\ PatienceReached(patience_counter + 1, patience)
          /\ exit' = "break"
          /\ pc' = "restore"
          /\ UNCHANGED <<best_val_loss, best_model_state, epoch>>
    /\ UNCHANGED <<epochs, patience, heap, val_loss, history_len,
                   lr_halvings, sched_best, num_bad_epochs>>
    /\ UNCHANGED seenVars
    /\ UNCHANGED <<pipeVars, genVars, valVars>>

\* after the loop: if best_model_state is not None: model.load_state_dict(..)
RestoreBest ==
    /\ pc = "restore"
    /\ heap' = IF best_model_state # None
               THEN load_state_dict(best_model_state) ELSE heap
    /\ pc' = "done"
    /\ UNCHANGED <<epochs, patience, epoch, val_loss, history_len,
                   best_val_loss, patience_counter, best_model_state, exit,
                   lr_halvings, sched_best, num_bad_epochs>>
    /\ UNCHANGED seenVars
    /\ UNCHANGED <<pipeVars, genVars, valVars>>

Next ==
    \/ ForLoop
    \/ TrainingPhase
    \/ ValidationPhase
    \/ SchedulerStep
    \/ EarlyStopping
    \/ RestoreBest

Spec == Init /\ [][Next]_vars

(* ---------------- train_model on finite validation losses -------------- *)
\* the validation loss is any finite float
ValidationPhaseFinite == \E v \in FiniteLosses : Validate(v)

NextFinite ==
    \/ ForLoop
    \/ TrainingPhase
    \/ ValidationPhaseFinite
    \/ SchedulerStep
    \/ EarlyStopping
    \/ RestoreBest

\* python runs the function's next statement as long as there is one
SpecFinite == Init /\ [][NextFinite]_vars /\ WF_vars(NextFinite)

(* ----- train_model with a patience above the scheduler's patience ------ *)
\* a call of train_model whose early-stopping patience is above the
\* scheduler's patience of 5, as the default of 20 is, by one or by two
InitController ==
    /\ epochs \in {MaxEpochs - 1, MaxEpochs}
    /\ patience \in {SchedPatience + 1, SchedPatience + 2}
    /\ TrainLocals("for")
    /\ sequence_length = 0
    /\ PipeEmpty("off")
    /\ GenOff
    /\ ValOff

SpecController == InitController /\ [][NextFinite]_vars

(* ------------- train_model on a loss curve that falls, then is flat ---- *)
\* a loss curve that falls strictly for DecreasingEpochs epochs and then
\* repeats its last value
DecreasingEpochs == 5
PlateauCurve == {Fin(LossBase - k) : k \in 0..DecreasingEpochs}
PlateauLosses ==
    IF epoch = 0 THEN PlateauCurve
    ELSE IF epoch < DecreasingEpochs
         THEN {v \in PlateauCurve : v.v < val_loss.v}
         ELSE {val_loss}

ValidationPhasePlateau == \E v \in PlateauLosses : Validate(v)

NextPlateau ==
    \/ ForLoop
    \/ TrainingPhase
    \/ ValidationPhasePlateau
    \/ SchedulerStep
    \/ EarlyStopping
    \/ RestoreBest

SpecPlateau == Init /\ [][NextPlateau]_vars

(* ------------------------ python floats, narrowed ----------------------- *)
\* A python float is a binary floating-point number with a 53-bit
\* significand, rounded to nearest, ties to even.  Here the significand has
\* FloatBits bits, and the exponent is unbounded: a float is m * 2^e with
\* m = 0, or 2^(FloatBits-1) <= |m| < 2^FloatBits.
FloatBits == 8
FZero == [m |-> 0, e |-> 0]
\* the float nearest to (n / d) * 2^e, for n >= 0 and d > 0
RECURSIVE FNearest(_, _, _)
FNearest(n, d, e) ==
    IF n = 0 THEN FZero
    ELSE IF n >= d * 2^FloatBits THEN FNearest(n, 2 * d, e + 1)
    ELSE IF n < d * 2^(FloatBits - 1) THEN FNearest(2 * n, d, e - 1)
    ELSE LET q == n \div d
             r == n % d
             up == 2 * r > d \/ (2 * r = d /\ q % 2 = 1)
             m == IF up THEN q + 1 ELSE q
         IN  IF m = 2^FloatBits
             THEN [m |-> 2^(FloatBits - 1), e |-> e + 1]
             ELSE [m |-> m, e |-> e]
FNeg(a) == [m |-> 0 - a.m, e |-> a.e]
FRound(n, d, e) == IF n >= 0 THEN FNearest(n, d, e) ELSE FNeg(FNearest(0 - n, d, e))
\* the float literal n/d, d > 0
Float(n, d) == FRound(n, d, 0)
\* a * b
FMul(a, b) == FRound(a.m * b.m, 1, a.e + b.e)
\* a / b, b # 0
FDiv(a, b) ==
    IF b.m > 0 THEN FRound(a.m, b.m, a.e - b.e)
    ELSE FRound(0 - a.m, 0 - b.m, a.e - b.e)
\* a and b as integers over a common power of two
FAligned(a, b) ==
    LET e0 == IF a.e < b.e THEN a.e ELSE b.e
    IN  [a |-> a.m * 2^(a.e - e0), b |-> b.m * 2^(b.e - e0), e |-> e0]
\* a + b
FAdd(a, b) == LET c == FAligned(a, b) IN FRound(c.a + c.b, 1, c.e)
\* a < b
FLess(a, b) == LET c == FAligned(a, b) IN c.a < c.b
\* max(a, b): python returns a unless b > a
FMax(a, b) == IF FLess(a, b) THEN b ELSE a

(* --------------------------- the data pipeline -------------------------- *)
\* A row of a corpus is named by the generation run that produced it and its
\* place in that run; its feature vector and its label are columns of it.
Row(r, i) == [run |-> r, idx |-> i]
Features(row) == [row |-> row, col |-> "features"]
\* the row a feature vector or a label is of
RowOf(x) == x.row
\* the rows of an array of feature vectors
RowsIn(X) == {RowOf(X[i]) : i \in 1..Len(X)}
Label(row) == [row |-> row, col |-> "label"]
\* the first n rows of run r, in generation order
Run(r, n) == [i \in 1..n |-> Row(r, i - 1)]
\* the permutations of 1..n
Perms(n) == {q \in [1..n -> 1..n] : \A i, j \in 1..n : q[i] = q[j] => i = j}
\* rows taken in the order q
Reorder(rows, q) == [i \in 1..Len(rows) |-> rows[q[i]]]

\* python: range(n)
PyRange(n) == IF n > 0 THEN 0..(n - 1) ELSE {}
\* python: X[a:b] for 0 <= a <= b
PySlice(X, a, b) == SubSeq(X, a + 1, IF b < Len(X) THEN b ELSE Len(X))
\* python: y[i] for 0 <= i < len(y)
PyIndex(y, i) == y[i + 1]
\* python: y[i], i >= 0, raises IndexError
PyIndexError(y, i) == i >= Len(y)

\* generate_morse_training_data_v3.main: the random-sample run and the
\* character-sequence run, concatenated, shuffled (sample(frac=1)), saved
GeneratorMain ==
    /\ stage = "start"
    /\ \E nRandom \in 1..MaxCorpus, nSequence \in 1..MaxCorpus :
          /\ nRandom + nSequence <= MaxCorpus
          /\ LET df_random == Run("random", nRandom)
                 df_sequence == Run("sequence", nSequence)
                 df_combined == df_random \o df_sequence
             IN  \E q \in Perms(Len(df_combined)) :
                    csv' = Reorder(df_combined, q)
    /\ stage' = "generated"
    /\ UNCHANGED <<X_train, y_train, X_test, y_test, scaler,
                   X_train_split, X_val_split, sequence_length,
                   X_train_seq, y_train_seq, X_test_seq, y_test_seq>>
    /\ UNCHANGED <<trainVars, seenVars, genVars, valVars>>

\* sklearn's train_test_split(test_size=0.2) with the shuffle q: the first
\* ceil(0.2 n) shuffled rows are the test split, the rest the training split
train_test_split(rows, q) ==
    LET n == Len(rows)
        n_test == (n + 4) \div 5
        shuffled == Reorder(rows, q)
    IN  [test |-> SubSeq(shuffled, 1, n_test),
         train |-> SubSeq(shuffled, n_test + 1, n)]

\* StandardScaler().fit_transform(X[:, 0]): mean_ and scale_ are the mean and
\* the standard deviation of the durations of all the rows given
fit_transform(rows) == [fit |-> {rows[i] : i \in 1..Len(rows)}]

\* load_and_prepare_data: read the csv, split it, fit the scaler on the
\* training split, return features, labels and scaler (scaling the duration
\* column moves no row)
LoadAndPrepareData ==
    /\ stage = "generated"
    /\ \E q \in Perms(Len(csv)) :
          LET split == train_test_split(csv, q)
          IN  /\ X_train' = [i \in 1..Len(split.train) |-> Features(split.train[i])]
              /\ y_train' = [i \in 1..Len(split.train) |-> Label(split.train[i])]
              /\ X_test' = [i \in 1..Len(split.test) |-> Features(split.test[i])]
              /\ y_test' = [i \in 1..Len(split.test) |-> Label(split.test[i])]
              /\ scaler' = fit_transform(split.train)
    /\ stage' = "loaded"
    /\ UNCHANGED <<csv, X_train_split, X_val_split, sequence_length,
                   X_train_seq, y_train_seq, X_test_seq, y_test_seq>>
    /\ UNCHANGED <<trainVars, seenVars, genVars, valVars>>

\* train_morse_model_v3.main: the dense model's training and validation
\* parts of X_train: X_train[:int(0.8 * len(X_train))] and the rest
MainSplit ==
    /\ stage = "loaded"
    /\ LET train_val_split == (8 * Len(X_train)) \div 10
       IN  /\ X_train_split' = PySlice(X_train, 0, train_val_split)
           /\ X_val_split' = PySlice(X_train, train_val_split, Len(X_train))
    /\ stage' = "split"
    /\ UNCHANGED <<csv, X_train, y_train, X_test, y_test, scaler,
                   sequence_length,
                   X_train_seq, y_train_seq, X_test_seq, y_test_seq>>
    /\ UNCHANGED <<trainVars, seenVars, genVars, valVars>>

\* the loop of create_sequences run for i in span; a target index past the
\* end of y raises, and nothing is returned
SequencesOver(X, y, seq_len, span) ==
    LET count == Cardinality(span)
        raised == \E i \in span : PyIndexError(y, i + seq_len)
    IN  [raised |-> raised,
         X_seq |-> [k \in 1..count |-> PySlice(X, k - 1, k - 1 + seq_len)],
         y_seq |-> IF raised THEN <<>>
                   ELSE [k \in 1..count |-> PyIndex(y, k - 1 + seq_len)]]

\* a mutant of create_sequences: range(len(X) - seq_len - 1)
create_sequences_short(X, y, seq_len) ==
    SequencesOver(X, y, seq_len, PyRange(Len(X) - seq_len - 1))

\* a mutant of create_sequences: range(len(X) - seq_len + 1)
create_sequences_long(X, y, seq_len) ==
    SequencesOver(X, y, seq_len, PyRange(Len(X) - seq_len + 1))

\* create_sequences: for i in range(len(X) - seq_len): the window
\* X[i:i+seq_len] and the target y[i+seq_len]
create_sequences(X, y, seq_len) ==
    SequencesOver(X, y, seq_len, PyRange(Len(X) - seq_len))

\* prepare_sequence_data: windows over the training and the test split
PrepareSequenceData ==
    /\ stage = "split"
    /\ LET tr == create_sequences(X_train, y_train, sequence_length)
           te == create_sequences(X_test, y_test, sequence_length)
       IN  IF tr.raised \/ te.raised
           THEN /\ stage' = "raised"
                /\ UNCHANGED <<X_train_seq, y_train_seq,
                               X_test_seq, y_test_seq>>
           ELSE /\ stage' = "windowed"
                /\ X_train_seq' = tr.X_seq
                /\ y_train_seq' = tr.y_seq
                /\ X_test_seq' = te.X_seq
                /\ y_test_seq' = te.y_seq
    /\ UNCHANGED <<csv, X_train, y_train, X_test, y_test, scaler,
                   X_train_split, X_val_split, sequence_length>>
    /\ UNCHANGED <<trainVars, seenVars, genVars, valVars>>

\* no train_model call is under way
TrainOff ==
    /\ epochs = 0
    /\ patience = 1
    /\ TrainLocals("off")

\* the whole pipeline, from generation to the sequence model's windows
InitPipe ==
    /\ TrainOff
    /\ sequence_length \in 1..MaxSeqLen
    /\ PipeEmpty("start")
    /\ GenOff
    /\ ValOff

NextPipe ==
    \/ GeneratorMain
    \/ LoadAndPrepareData
    \/ MainSplit
    \/ PrepareSequenceData

SpecPipe == InitPipe /\ [][NextPipe]_vars

\* prepare_sequence_data alone, on any two streams and any window length
InitSeq ==
    /\ TrainOff
    /\ sequence_length \in 0..MaxSeqLen
    /\ stage = "split"
    /\ csv = <<>>
    /\ scaler = None
    /\ X_train_split = <<>>
    /\ X_val_split = <<>>
    /\ \E n \in 0..MaxStream :
          /\ X_train = [i \in 1..n |-> Features(Row("train", i - 1))]
          /\ y_train = [i \in 1..n |-> Label(Row("train", i - 1))]
    /\ \E n \in 0..MaxStream :
          /\ X_test = [i \in 1..n |-> Features(Row("test", i - 1))]
          /\ y_test = [i \in 1..n |-> Label(Row("test", i - 1))]
    /\ X_train_seq = <<>>
    /\ y_train_seq = <<>>
    /\ X_test_seq = <<>>
    /\ y_test_seq = <<>>
    /\ GenOff
    /\ ValOff

SpecSeq == InitSeq /\ [][PrepareSequenceData]_vars

(* ------------------------- the v3 data generator ------------------------ *)
\* Morse timing constants, in dit units
DIT_UNITS == 1
DAH_UNITS == 3
ELEMENT_GAP == 1
LETTER_GAP == 3
WORD_GAP == 7
\* the default speed range
WPM_MIN == 10
WPM_MAX == 40

\* bounds of the generator runs
MaxSamples == 101
MaxCharacters == 51
MaxSamplesV2 == 3

\* speeds random.uniform(min_wpm, max_wpm) can return
WpmVals == {Float(13, 1), Float(20, 1)}
\* speeds it can return from a range that is not positive
NonPositiveWpmVals == {Float(-13, 1), FZero}
\* factors random.uniform(0.8, 1.2) can return
SpeedFactorVals == {Float(8, 10), Float(1, 1), Float(12, 10)}
\* samples np.random.normal(1.0, sigma) can return
JitterVals == {Float(-1, 2), FZero, Float(1, 1)}
\* values random.random() can return, in hundredths
ChoiceVals == {0, 20, 25, 30, 35, 50, 55, 75, 80}

\* float literals of the generators
OnePointTwo == Float(12, 10)
Thousand == Float(1000, 1)
One == Float(1, 1)
\* an int of 0..7 as a float
IntFloats == [n \in 0..7 |-> Float(n, 1)]

\* random.uniform(a, b): some value between a and b
uniform(a, b) ==
    {w \in WpmVals \cup NonPositiveWpmVals \cup SpeedFactorVals :
        ~FLess(w, a) /\ ~FLess(b, w)}

\* 1.2 / wpm raises ZeroDivisionError
ZeroDivisionError(wpm) == wpm.m = 0

\* wpm_to_dit_duration: 1.2 / wpm
wpm_to_dit_duration(wpm) == FDiv(OnePointTwo, wpm)

\* dit_to_milliseconds: dit_units * dit_duration_sec * 1000
dit_to_milliseconds(dit_units, wpm) ==
    LET dit_duration_sec == wpm_to_dit_duration(wpm)
    IN  FMul(FMul(IntFloats[dit_units], dit_duration_sec), Thousand)

\* a mutant of apply_human_jitter: no floor
apply_human_jitter_unfloored(duration_ms, normal) == FMul(duration_ms, normal)

\* apply_human_jitter, normal being the sample of np.random.normal:
\* max(duration_ms * normal, 1.0)
apply_human_jitter(duration_ms, normal) ==
    LET jittered == FMul(duration_ms, normal)
    IN  FMax(jittered, One)

\* the two functions above, tabulated over the values the runs draw
UnitVals == {DIT_UNITS, DAH_UNITS, ELEMENT_GAP, LETTER_GAP, WORD_GAP}
DivisorVals == {w \in WpmVals \cup NonPositiveWpmVals : ~ZeroDivisionError(w)}
BaseDurations ==
    [u \in UnitVals |-> [w \in DivisorVals |-> dit_to_milliseconds(u, w)]]
JitteredDurations ==
    [u \in UnitVals |-> [w \in DivisorVals |-> [normal \in JitterVals |->
        apply_human_jitter(BaseDurations[u][w], normal)]]]

\* data.append([duration_ms, is_key_down, label]), and what the observers
\* note of it: the speed w, the units and the duration before jitter
Append3(duration_ms, is_key_down, label, w, units, base) ==
    /\ last_row' = [duration_ms |-> duration_ms,
                    is_key_down |-> is_key_down, label |-> label]
    /\ seen_prev_label' = IF last_row = None THEN 0 - 1 ELSE last_row.label
    /\ seen_wpm' = w
    /\ seen_units' = units
    /\ seen_base' = base

\* a mutant of ResampleSample: a new speed for every sample
ResampleEverySample(i) == TRUE
\* generate_morse_dataset_v3: if i % 100 == 0
ResampleSample(i) == i % 100 = 0

\* a mutant of ElementChoice: an element space is keyed down
ElementChoiceKeyedGap(choice) ==
    IF choice < 20
    THEN [timing_units |-> DIT_UNITS, is_key_down |-> 1, label |-> 0]
    ELSE IF choice < 35
    THEN [timing_units |-> DAH_UNITS, is_key_down |-> 1, label |-> 1]
    ELSE IF choice < 55
    THEN [timing_units |-> ELEMENT_GAP, is_key_down |-> 1, label |-> 2]
    ELSE IF choice < 80
    THEN [timing_units |-> LETTER_GAP, is_key_down |-> 0, label |-> 3]
    ELSE [timing_units |-> WORD_GAP, is_key_down |-> 0, label |-> 4]

\* a mutant of ElementChoice: as in a real Morse stream, a gap is followed
\* by a pulse
ElementChoiceNoGapAfterGap(choice) ==
    IF last_row # None /\ last_row.is_key_down = 0
    THEN IF choice < 55
         THEN [timing_units |-> DIT_UNITS, is_key_down |-> 1, label |-> 0]
         ELSE [timing_units |-> DAH_UNITS, is_key_down |-> 1, label |-> 1]
    ELSE IF choice < 20
    THEN [timing_units |-> DIT_UNITS, is_key_down |-> 1, label |-> 0]
    ELSE IF choice < 35
    THEN [timing_units |-> DAH_UNITS, is_key_down |-> 1, label |-> 1]
    ELSE IF choice < 55
    THEN [timing_units |-> ELEMENT_GAP, is_key_down |-> 0, label |-> 2]
    ELSE IF choice < 80
    THEN [timing_units |-> LETTER_GAP, is_key_down |-> 0, label |-> 3]
    ELSE [timing_units |-> WORD_GAP, is_key_down |-> 0, label |-> 4]

\* generate_morse_dataset_v3: the element type drawn by choice
ElementChoice(choice) ==
    IF choice < 20
    THEN [timing_units |-> DIT_UNITS, is_key_down |-> 1, label |-> 0]
    ELSE IF choice < 35
    THEN [timing_units |-> DAH_UNITS, is_key_down |-> 1, label |-> 1]
    ELSE IF choice < 55
    THEN [timing_units |-> ELEMENT_GAP, is_key_down |-> 0, label |-> 2]
    ELSE IF choice < 80
    THEN [timing_units |-> LETTER_GAP, is_key_down |-> 0, label |-> 3]
    ELSE [timing_units |-> WORD_GAP, is_key_down |-> 0, label |-> 4]

\* generate_morse_dataset_v3: one pass of the loop body, el being the
\* element type its draw of choice selects
DatasetV3Sample(el) ==
    /\ generator = "generate_morse_dataset_v3"
    /\ gen_pc = "for"
    /\ gen_i < num
    /\ \E w \in IF ResampleSample(gen_i)
                THEN uniform(wpm_range[1], wpm_range[2])
                ELSE {current_wpm} :
       IF ZeroDivisionError(w)
       THEN /\ gen_pc' = "raised"
            /\ UNCHANGED <<current_wpm, last_row, seen_prev_label, seen_wpm,
                           seen_units, seen_base, seen_block_wpm, seen_draws,
                           gen_i>>
       ELSE /\ \E normal \in JitterVals :
                 LET base == BaseDurations[el.timing_units][w]
                     duration_ms ==
                         JitteredDurations[el.timing_units][w][normal]
                 IN  /\ current_wpm' = w
                     /\ Append3(duration_ms, el.is_key_down, el.label,
                                w, el.timing_units, base)
                     /\ seen_block_wpm' = IF gen_i % 100 = 0 THEN w
                                          ELSE seen_block_wpm
            /\ seen_draws' = IF ResampleSample(gen_i) THEN seen_draws + 1
                             ELSE seen_draws
            /\ gen_i' = gen_i + 1
            /\ gen_pc' = gen_pc
    /\ UNCHANGED <<generator, num, wpm_range, base_dit_ms,
                   current_dit, pattern, sym_j, seen_chars, char_rows>>
    /\ UNCHANGED <<trainVars, seenVars, pipeVars, valVars>>

\* generate_morse_dataset_v3: one pass of the loop body
DatasetV3Iteration ==
    \E el \in {ElementChoice(choice) : choice \in ChoiceVals} :
        DatasetV3Sample(el)

\* a generator's outer loop is exhausted: build the DataFrame and return
GeneratorReturn ==
    /\ generator # "off"
    /\ gen_pc = "for"
    /\ gen_i >= num
    /\ gen_pc' = "done"
    /\ UNCHANGED <<generator, num, wpm_range, base_dit_ms, gen_i,
                   current_wpm, current_dit, pattern, sym_j,
                   last_row, seen_prev_label, seen_wpm, seen_units,
                   seen_base, seen_draws, seen_block_wpm, seen_chars,
                   char_rows>>
    /\ UNCHANGED <<trainVars, seenVars, pipeVars, valVars>>

\* the International Morse Code table of the sequence generators
morse_code ==
    ("A" :> <<".", "-">>) @@
    ("B" :> <<"-", ".", ".", ".">>) @@
    ("C" :> <<"-", ".", "-", ".">>) @@
    ("D" :> <<"-", ".", ".">>) @@
    ("E" :> <<".">>) @@
    ("F" :> <<".", ".", "-", ".">>) @@
    ("G" :> <<"-", "-", ".">>) @@
    ("H" :> <<".", ".", ".", ".">>) @@
    ("I" :> <<".", ".">>) @@
    ("J" :> <<".", "-", "-", "-">>) @@
    ("K" :> <<"-", ".", "-">>) @@
    ("L" :> <<".", "-", ".", ".">>) @@
    ("M" :> <<"-", "-">>) @@
    ("N" :> <<"-", ".">>) @@
    ("O" :> <<"-", "-", "-">>) @@
    ("P" :> <<".", "-", "-", ".">>) @@
    ("Q" :> <<"-", "-", ".", "-">>) @@
    ("R" :> <<".", "-", ".">>) @@
    ("S" :> <<".", ".", ".">>) @@
    ("T" :> <<"-">>) @@
    ("U" :> <<".", ".", "-">>) @@
    ("V" :> <<".", ".", ".", "-">>) @@
    ("W" :> <<".", "-", "-">>) @@
    ("X" :> <<"-", ".", ".", "-">>) @@
    ("Y" :> <<"-", ".", "-", "-">>) @@
    ("Z" :> <<"-", "-", ".", ".">>) @@
    ("0" :> <<"-", "-", "-", "-", "-">>) @@
    ("1" :> <<".", "-", "-", "-", "-">>) @@
    ("2" :> <<".", ".", "-", "-", "-">>) @@
    ("3" :> <<".", ".", ".", "-", "-">>) @@
    ("4" :> <<".", ".", ".", ".", "-">>) @@
    ("5" :> <<".", ".", ".", ".", ".">>) @@
    ("6" :> <<"-", ".", ".", ".", ".">>) @@
    ("7" :> <<"-", "-", ".", ".", ".">>) @@
    ("8" :> <<"-", "-", "-", ".", ".">>) @@
    ("9" :> <<"-", "-", "-", "-", ".">>)

\* a mutant of ResampleCharacter: a new speed for every character
ResampleEveryCharacter(i) == TRUE
\* generate_sequence_based_data_v3: if i % 50 == 0
ResampleCharacter(i) == i % 50 = 0

\* generate_sequence_based_data_v3: the head of the loop body: the speed
\* and the character
SequenceV3Character ==
    /\ generator = "generate_sequence_based_data_v3"
    /\ gen_pc = "for"
    /\ gen_i < num
    /\ \E w \in IF ResampleCharacter(gen_i)
                THEN uniform(wpm_range[1], wpm_range[2])
                ELSE {current_wpm} :
          current_wpm' = w
    /\ seen_draws' = IF ResampleCharacter(gen_i) THEN seen_draws + 1
                     ELSE seen_draws
    /\ \E char \in DOMAIN morse_code : pattern' = morse_code[char]
    /\ sym_j' = 0
    /\ char_rows' = <<>>
    /\ gen_pc' = "pulse"
    /\ UNCHANGED <<generator, num, wpm_range, base_dit_ms, gen_i,
                   current_dit, last_row, seen_prev_label,
                   seen_wpm, seen_units, seen_base, seen_block_wpm,
                   seen_chars>>
    /\ UNCHANGED <<trainVars, seenVars, pipeVars, valVars>>

\* a row of the sequence generator, and what the observers note of it
AppendSequenceV3(timing_units, is_key_down, label, normal) ==
    LET base == BaseDurations[timing_units][current_wpm]
        duration_ms == JitteredDurations[timing_units][current_wpm][normal]
    IN  /\ Append3(duration_ms, is_key_down, label,
                   current_wpm, timing_units, base)
        /\ seen_block_wpm' =
              IF seen_chars % 50 = 0 /\ char_rows = <<>> THEN current_wpm
              ELSE seen_block_wpm
        /\ char_rows' = Append(char_rows, label)

\* a mutant of PulseOf: a dot is given the units of a dash
PulseOfLongDot(symbol) ==
    IF symbol = "."
    THEN [timing_units |-> DAH_UNITS, label |-> 0]
    ELSE [timing_units |-> DAH_UNITS, label |-> 1]
\* generate_sequence_based_data_v3: the pulse of a symbol
PulseOf(symbol) ==
    IF symbol = "."
    THEN [timing_units |-> DIT_UNITS, label |-> 0]
    ELSE [timing_units |-> DAH_UNITS, label |-> 1]

\* a mutant of GapFollows: a gap after the last pulse too
GapFollowsAlways(j, pat) == TRUE
\* generate_sequence_based_data_v3: if j < len(pattern) - 1
GapFollows(j, pat) == j < Len(pat) - 1

\* generate_sequence_based_data_v3: the key-down pulse of symbol j
SequenceV3Pulse ==
    /\ generator = "generate_sequence_based_data_v3"
    /\ gen_pc = "pulse"
    /\ IF ZeroDivisionError(current_wpm)
       THEN /\ gen_pc' = "raised"
            /\ UNCHANGED <<last_row, seen_prev_label, seen_wpm, seen_units,
                           seen_base, seen_block_wpm, char_rows>>
       ELSE /\ LET p == PulseOf(PyIndex(pattern, sym_j))
               IN  \E normal \in JitterVals :
                      AppendSequenceV3(p.timing_units, 1, p.label, normal)
            /\ gen_pc' = IF GapFollows(sym_j, pattern) THEN "gap"
                         ELSE "terminal"
    /\ UNCHANGED <<generator, num, wpm_range, base_dit_ms, gen_i,
                   current_wpm, current_dit, pattern, sym_j, seen_draws,
                   seen_chars>>
    /\ UNCHANGED <<trainVars, seenVars, pipeVars, valVars>>

\* generate_sequence_based_data_v3: the key-up gap after symbol j, and on to
\* the next symbol, or out of the inner loop after a gap that follows the
\* last symbol
SequenceV3ElementGap ==
    /\ generator = "generate_sequence_based_data_v3"
    /\ gen_pc = "gap"
    /\ \E normal \in JitterVals :
          AppendSequenceV3(ELEMENT_GAP, 0, 2, normal)
    /\ IF sym_j + 1 < Len(pattern)
       THEN sym_j' = sym_j + 1 /\ gen_pc' = "pulse"
       ELSE sym_j' = sym_j /\ gen_pc' = "terminal"
    /\ UNCHANGED <<generator, num, wpm_range, base_dit_ms, gen_i,
                   current_wpm, current_dit, pattern, seen_draws,
                   seen_chars>>
    /\ UNCHANGED <<trainVars, seenVars, pipeVars, valVars>>

\* generate_sequence_based_data_v3: the space after the character
TerminalGap(r) ==
    IF r < 25
    THEN [timing_units |-> WORD_GAP, label |-> 4]
    ELSE [timing_units |-> LETTER_GAP, label |-> 3]

\* generate_sequence_based_data_v3: the letter or word space, and on to the
\* next character
SequenceV3Terminal ==
    /\ generator = "generate_sequence_based_data_v3"
    /\ gen_pc = "terminal"
    /\ \E g \in {TerminalGap(r) : r \in ChoiceVals}, normal \in JitterVals :
          AppendSequenceV3(g.timing_units, 0, g.label, normal)
    /\ seen_chars' = seen_chars + 1
    /\ gen_i' = gen_i + 1
    /\ gen_pc' = "for"
    /\ UNCHANGED <<generator, num, wpm_range, base_dit_ms,
                   current_wpm, current_dit, pattern, sym_j, seen_draws>>
    /\ UNCHANGED <<trainVars, seenVars, pipeVars, valVars>>

(* ------------------------- the v2 data generator ------------------------ *)
\* data.append([duration, is_key_down, label]) in the v2 generators, which
\* have no speed in wpm and no timing units
Append2(duration_ms, is_key_down, label) ==
    /\ last_row' = [duration_ms |-> duration_ms,
                    is_key_down |-> is_key_down, label |-> label]
    /\ seen_prev_label' = IF last_row = None THEN 0 - 1 ELSE last_row.label
    /\ UNCHANGED <<seen_wpm, seen_units, seen_base, seen_block_wpm>>

\* v2: jitter = lambda x: x * np.random.normal(1.0, 0.08)
jitter(x, normal) == FMul(x, normal)

\* generate_morse_dataset_v2: the element drawn by choice; the duration is
\* in dits
ElementChoiceV2(choice) ==
    IF choice < 25 THEN [dits |-> 1, is_key_down |-> 1, label |-> 0]
    ELSE IF choice < 50 THEN [dits |-> 3, is_key_down |-> 1, label |-> 1]
    ELSE IF choice < 75 THEN [dits |-> 1, is_key_down |-> 0, label |-> 2]
    ELSE [dits |-> 7, is_key_down |-> 0, label |-> 3]

\* generate_morse_dataset_v2: one pass of the loop body
DatasetV2Iteration ==
    /\ generator = "generate_morse_dataset_v2"
    /\ gen_pc = "for"
    /\ gen_i < num
    /\ \E f \in uniform(Float(8, 10), Float(12, 10)) :
       \E el \in {ElementChoiceV2(choice) : choice \in ChoiceVals},
          normal \in JitterVals :
          LET dit == FMul(base_dit_ms, f)
              duration == jitter(FMul(dit, IntFloats[el.dits]), normal)
          IN  /\ current_dit' = dit
              /\ Append2(duration, el.is_key_down, el.label)
    /\ gen_i' = gen_i + 1
    /\ UNCHANGED <<generator, gen_pc, num, wpm_range, base_dit_ms,
                   current_wpm, pattern, sym_j, seen_draws, seen_chars,
                   char_rows>>
    /\ UNCHANGED <<trainVars, seenVars, pipeVars, valVars>>

\* generate_sequence_based_data (v2): the head of the loop body: the
\* character and its speed
SequenceV2Character ==
    /\ generator = "generate_sequence_based_data"
    /\ gen_pc = "for"
    /\ gen_i < num
    /\ \E char \in DOMAIN morse_code : pattern' = morse_code[char]
    /\ \E f \in uniform(Float(8, 10), Float(12, 10)) :
          current_dit' = FMul(base_dit_ms, f)
    /\ sym_j' = 0
    /\ char_rows' = <<>>
    /\ gen_pc' = "pulse"
    /\ UNCHANGED <<generator, num, wpm_range, base_dit_ms, gen_i,
                   current_wpm, last_row, seen_prev_label,
                   seen_wpm, seen_units, seen_base, seen_draws,
                   seen_block_wpm, seen_chars>>
    /\ UNCHANGED <<trainVars, seenVars, pipeVars, valVars>>

\* generate_sequence_based_data (v2): the key-down pulse of symbol i
SequenceV2Pulse ==
    /\ generator = "generate_sequence_based_data"
    /\ gen_pc = "pulse"
    /\ \E normal \in JitterVals :
          IF PyIndex(pattern, sym_j) = "."
          THEN Append2(jitter(current_dit, normal), 1, 0)
          ELSE Append2(jitter(FMul(current_dit, IntFloats[3]), normal), 1, 1)
    /\ char_rows' = Append(char_rows, last_row'.label)
    /\ gen_pc' = IF sym_j < Len(pattern) - 1 THEN "gap" ELSE "terminal"
    /\ UNCHANGED <<generator, num, wpm_range, base_dit_ms, gen_i,
                   current_wpm, current_dit, pattern, sym_j, seen_draws,
                   seen_chars>>
    /\ UNCHANGED <<trainVars, seenVars, pipeVars, valVars>>

\* generate_sequence_based_data (v2): the key-up gap after symbol i
SequenceV2ElementGap ==
    /\ generator = "generate_sequence_based_data"
    /\ gen_pc = "gap"
    /\ \E normal \in JitterVals :
          Append2(jitter(current_dit, normal), 0, 2)
    /\ char_rows' = Append(char_rows, 2)
    /\ sym_j' = sym_j + 1
    /\ gen_pc' = "pulse"
    /\ UNCHANGED <<generator, num, wpm_range, base_dit_ms, gen_i,
                   current_wpm, current_dit, pattern, seen_draws,
                   seen_chars>>
    /\ UNCHANGED <<trainVars, seenVars, pipeVars, valVars>>

\* generate_sequence_based_data (v2): the word space, or the character space
\* labelled as an element space
SequenceV2Terminal ==
    /\ generator = "generate_sequence_based_data"
    /\ gen_pc = "terminal"
    /\ \E word \in {r < 30 : r \in ChoiceVals}, normal \in JitterVals :
          IF word
          THEN Append2(jitter(FMul(current_dit, IntFloats[7]), normal), 0, 3)
          ELSE Append2(jitter(FMul(current_dit, IntFloats[3]), normal), 0, 2)
    /\ char_rows' = Append(char_rows, last_row'.label)
    /\ seen_chars' = seen_chars + 1
    /\ gen_i' = gen_i + 1
    /\ gen_pc' = "for"
    /\ UNCHANGED <<generator, num, wpm_range, base_dit_ms,
                   current_wpm, current_dit, pattern, sym_j, seen_draws>>
    /\ UNCHANGED <<trainVars, seenVars, pipeVars, valVars>>

(* ------------------------- a run of a generator ------------------------- *)
\* the four generators, and the largest corpus asked of each
V3Generators == {"generate_morse_dataset_v3", "generate_sequence_based_data_v3"}
V2Generators == {"generate_morse_dataset_v2", "generate_sequence_based_data"}
MaxNum(g) ==
    IF g = "generate_morse_dataset_v3" THEN MaxSamples
    ELSE IF g = "generate_sequence_based_data_v3" THEN MaxCharacters
    ELSE MaxSamplesV2

\* a call of one of the generators
InitGen ==
    /\ TrainOff
    /\ sequence_length = 0
    /\ PipeEmpty("off")
    /\ generator \in V3Generators \cup V2Generators
    /\ num \in {0, 1, MaxNum(generator)}
    /\ IF generator \in V3Generators
       THEN /\ wpm_range \in {<<Float(WPM_MIN, 1), Float(WPM_MAX, 1)>>,
                              <<Float(-13, 1), FZero>>}
            /\ base_dit_ms = None
       ELSE /\ wpm_range = None
            /\ base_dit_ms = Float(100, 1)
    /\ GenLocals("for")
    /\ ValOff

NextGen ==
    \/ DatasetV3Iteration
    \/ SequenceV3Character
    \/ SequenceV3Pulse
    \/ SequenceV3ElementGap
    \/ SequenceV3Terminal
    \/ DatasetV2Iteration
    \/ SequenceV2Character
    \/ SequenceV2Pulse
    \/ SequenceV2ElementGap
    \/ SequenceV2Terminal
    \/ GeneratorReturn

SpecGen == InitGen /\ [][NextGen]_vars

\* the units of the classes 0=Dit, 1=Dah, 2=ElementGap, 3=LetterGap, 4=WordGap
CanonicalUnits == [c \in 0..4 |-> IF c \in {0, 2} THEN 1 ELSE IF c = 4 THEN 7 ELSE 3]

(* ------------------------------ the validator --------------------------- *)
\* the greatest number of rows of one class in a corpus
MaxPerClass == 3
\* float literals of validate_timing_standards
Tolerance == Float(20, 100)
\* a - b
FSub(a, b) == FAdd(a, FNeg(b))
\* abs(a)
FAbs(a) == IF a.m < 0 THEN FNeg(a) ELSE a

\* the multiplier np.random.normal returned for row k of a class: all 1 in a
\* corpus of zero jitter, 1.5 for the first row of a class in the others
CorpusNormal(mode, k) ==
    IF mode = "some" /\ k = 1 THEN Float(3, 2) ELSE One
\* n rows of a class, as the v3 generators emit them at speed w
RowsOf(label, n, w, mode) ==
    [k \in 1..n |->
        [duration_ms |-> apply_human_jitter(
                             dit_to_milliseconds(CanonicalUnits[label], w),
                             CorpusNormal(mode, k)),
         label |-> label]]
\* a corpus of count[c] rows of each class c
CorpusOf(count, w, mode) ==
    RowsOf(0, count[0], w, mode) \o RowsOf(1, count[1], w, mode)
        \o RowsOf(2, count[2], w, mode) \o RowsOf(3, count[3], w, mode)
        \o RowsOf(4, count[4], w, mode)

\* df[mask]['duration_ms'] for mask = df['label'] == label
Masked(d, label) ==
    LET rows == SelectSeq(d, LAMBDA r : r.label = label)
    IN  [k \in 1..Len(rows) |-> rows[k].duration_ms]
\* the sum of a Series of floats, added up in order
RECURSIVE FSum(_)
FSum(x) ==
    IF x = <<>> THEN FZero
    ELSE FAdd(FSum(SubSeq(x, 1, Len(x) - 1)), x[Len(x)])
\* a mutant of mean: the sum is not divided by the count
meanUndivided(x) == FSum(x)
\* Series.mean() of a non-empty Series
mean(x) == FDiv(FSum(x), Float(Len(x), 1))

\* d[key] raises KeyError
KeyError(d, key) == key \notin DOMAIN d

\* validate_timing_standards: one pass of the loop over range(5): the mean
\* duration of a label that occurs in df (the std, which is printed only,
\* is left out)
ValidateLabel ==
    /\ val_pc = "for"
    /\ val_label < 5
    /\ LET x == Masked(df, val_label)
       IN  results' = IF Len(x) > 0
                      THEN results @@
                           (val_label :> [mean |-> mean(x), count |-> Len(x)])
                      ELSE results
    /\ val_label' = val_label + 1
    /\ UNCHANGED <<df, val_pc, dit_mean, ratio, ratios, valid, val_return,
                   corpus_wpm, corpus_jitter>>
    /\ UNCHANGED <<trainVars, seenVars, pipeVars, genVars>>

\* validate_timing_standards: dit_mean = results[0]['mean'], and the ratio
\* to it of every mean in results
ValidateBaseline ==
    /\ val_pc = "for"
    /\ val_label = 5
    /\ IF KeyError(results, 0)
       THEN /\ val_pc' = "raised"
            /\ UNCHANGED <<dit_mean, ratio>>
       ELSE /\ val_pc' = "ratios"
            /\ dit_mean' = results[0].mean
            /\ ratio' = [label \in DOMAIN results |->
                            FDiv(results[label].mean, results[0].mean)]
    /\ UNCHANGED <<df, val_label, results, ratios, valid, val_return,
                   corpus_wpm, corpus_jitter>>
    /\ UNCHANGED <<trainVars, seenVars, pipeVars, genVars>>

\* validate_timing_standards: the Dah, LetterSpace and WordSpace ratios,
\* read from results
ValidateRatios ==
    /\ val_pc = "ratios"
    /\ IF KeyError(results, 1) \/ KeyError(results, 3) \/ KeyError(results, 4)
       THEN /\ val_pc' = "raised"
            /\ UNCHANGED ratios
       ELSE /\ val_pc' = "tolerance"
            /\ ratios' = [dah |-> FDiv(results[1].mean, dit_mean),
                          letter |-> FDiv(results[3].mean, dit_mean),
                          word |-> FDiv(results[4].mean, dit_mean)]
    /\ UNCHANGED <<df, val_label, results, dit_mean, ratio, valid, val_return,
                   corpus_wpm, corpus_jitter>>
    /\ UNCHANGED <<trainVars, seenVars, pipeVars, genVars>>

\* a mutant of WithinTolerance: the deviation is not made absolute
WithinToleranceSigned(r, expected) ==
    FLess(FDiv(FSub(r, IntFloats[expected]), IntFloats[expected]),
          Tolerance)
\* abs(r - expected) / expected < tolerance
WithinTolerance(r, expected) ==
    FLess(FDiv(FAbs(FSub(r, IntFloats[expected])), IntFloats[expected]),
          Tolerance)

\* validate_timing_standards: the three verdicts, and return results
ValidateTolerance ==
    /\ val_pc = "tolerance"
    /\ valid' = [dah |-> WithinTolerance(ratios.dah, 3),
                 letter |-> WithinTolerance(ratios.letter, 3),
                 word |-> WithinTolerance(ratios.word, 7)]
    /\ val_return' = results
    /\ val_pc' = "returned"
    /\ UNCHANGED <<df, val_label, results, dit_mean, ratio, ratios,
                   corpus_wpm, corpus_jitter>>
    /\ UNCHANGED <<trainVars, seenVars, pipeVars, genVars>>

\* durations in ms of the rows of corpora made by hand: Dah, LetterSpace and
\* WordSpace at, 20% off and 40% off their ratio to a Dit of 100 ms
HandDah == {240, 300, 360, 420}
HandLetter == {300, 360}
HandWord == {560, 700, 840, 980}
\* a DataFrame of one row of each class
HandCorpus(dah, letter, word) ==
    << [duration_ms |-> Float(100, 1), label |-> 0],
       [duration_ms |-> Float(dah, 1), label |-> 1],
       [duration_ms |-> Float(100, 1), label |-> 2],
       [duration_ms |-> Float(letter, 1), label |-> 3],
       [duration_ms |-> Float(word, 1), label |-> 4] >>

\* a call of validate_timing_standards, on a corpus of the v3 generators
\* made at one speed or on a DataFrame made by hand
InitValidate ==
    /\ TrainOff
    /\ sequence_length = 0
    /\ PipeEmpty("off")
    /\ GenOff
    /\ \/ /\ corpus_wpm \in WpmVals
          /\ corpus_jitter \in {"zero", "some"}
          /\ \E count \in [0..4 -> 0..MaxPerClass] :
                df = CorpusOf(count, corpus_wpm, corpus_jitter)
       \/ /\ corpus_wpm = None
          /\ corpus_jitter = "hand"
          /\ \E dah \in HandDah, letter \in HandLetter, word \in HandWord :
                df = HandCorpus(dah, letter, word)
    /\ ValLocals("for")

NextValidate ==
    \/ ValidateLabel
    \/ ValidateBaseline
    \/ ValidateRatios
    \/ ValidateTolerance

SpecValidate == InitValidate /\ [][NextValidate]_vars


(* ------------------------------ claims --------------------------------- *)
\* the epoch's work is over: the early-stopping block has run
AfterEpoch == pc \in {"for", "train", "validate", "restore", "done"}
\* the model's parameters now
Params == heap[ModelTensor]

\* C1: when train_model returns, the model's parameters are those it had at
\* the end of the epoch with the least validation loss.
C1_ReturnsBestParameters ==
    (pc = "done" /\ seen_min_params # None)
        => Params = seen_min_params.value

\* C2: once taken, the contents of best_model_state change only in an
\* early-stopping block that records a new improvement; no optimizer step
\* and no validation pass changes them.
C2_SnapshotIsolated ==
    [][(best_model_state # None /\ pc # "early_stopping")
          => heap'[best_model_state.param] = heap[best_model_state.param]]_vars

\* C3: once an epoch's loss is inf or nan the run is aborted: with that loss
\* in val_loss, control never reaches the early-stopping block (no stall is
\* counted), the head of the loop (no further epoch), the restore step or
\* the return.
C3_AbortsOnNonFiniteLoss ==
    val_loss.kind \in {"inf", "nan"}
        => pc \notin {"early_stopping", "for", "train", "restore", "done"}

\* on a curve that falls for DecreasingEpochs epochs and is then flat, with a
\* budget of at least DecreasingEpochs + patience, the run early-stops at the
\* end of epoch DecreasingEpochs + patience exactly
C4_StopEpoch ==
    /\ (pc = "done" /\ epochs >= DecreasingEpochs + patience)
          => (exit = "break" /\ history_len = DecreasingEpochs + patience)
    /\ (exit = "break") => history_len = DecreasingEpochs + patience

\* C4: for every patience >= 1 and budget >= DecreasingEpochs + patience, on
\* a loss curve that falls strictly for DecreasingEpochs epochs and is flat
\* afterwards, train_model stops at the end of epoch DecreasingEpochs +
\* patience exactly, and the best snapshot then holds the parameters of the
\* end of epoch DecreasingEpochs.
C4_PlateauStopsWithEpochFiveSnapshot ==
    /\ C4_StopEpoch
    /\ (pc = "done" /\ epochs >= DecreasingEpochs + patience)
          => /\ best_model_state # None
             /\ Contents(best_model_state) = seen_min_params.value

\* what one pass through the early-stopping block does
C5_Block ==
    pc = "early_stopping" =>
        IF /\ val_loss.kind = "fin"
           /\ best_val_loss.kind = "inf" \/ val_loss.v < best_val_loss.v
        THEN /\ patience_counter' = 0
             /\ best_val_loss' = val_loss
             /\ best_model_state' # None
             /\ heap'[best_model_state'.param] = Params
        ELSE /\ patience_counter' = patience_counter + 1
             /\ best_val_loss' = best_val_loss
             /\ best_model_state' = best_model_state
             /\ heap' = heap
\* C5: after every epoch patience_counter is the number of epochs since the
\* loss last fell strictly below the best before it; the early-stopping
\* block, on a strictly lower loss, sets the counter to 0, records the loss
\* and takes a snapshot of the current parameters, and otherwise adds one to
\* the counter and leaves best_val_loss and the snapshot alone.
C5_CounterCountsStalls ==
    /\ [](AfterEpoch => patience_counter = seen_since)
    /\ [][C5_Block]_vars
C5_Witness ==
    /\ pc = "for"
    /\ best_model_state # None
    /\ patience_counter = 2
    /\ val_loss = best_val_loss

\* what may still happen once the loop has been left by break
C6_AfterBreak ==
    exit = "break" =>
        /\ pc' \in {"restore", "done"}
        /\ UNCHANGED <<epoch, val_loss, history_len, patience_counter,
                       best_val_loss, lr_halvings, sched_best, num_bad_epochs>>
\* C6: the loop is left by break at the end of the first epoch at which the
\* counter reaches patience and never while it is below; from then on there
\* is no training step, validation pass, scheduler step or history entry.
C6_EarlyStopAtPatience ==
    /\ [](exit = "break" => (patience_counter = patience /\ seen_since = patience))
    /\ []((exit # "break" /\ AfterEpoch) => seen_since < patience)
    /\ [][C6_AfterBreak]_vars
C6_Witness ==
    /\ pc = "done"
    /\ exit = "break"
    /\ history_len < epochs
    /\ patience > 1

\* C7 as claimed: at the end of the 5th epoch in a row without improvement
\* the learning rate has been halved.
C7_HalvedAtFifthStall ==
    (pc = "early_stopping" /\ seen_min.kind = "fin" /\ seen_since = SchedPatience)
        => lr_halvings >= 1

\* C7 as amended: the learning rate is halved at the end of the 6th epoch in
\* a row that did not improve on the plateau's reference by more than the
\* relative threshold (counted anew after a halving), and at no other time.
C7_HalvedAtSixthStall ==
    /\ [][(lr_halvings' # lr_halvings)
              <=> (pc = "scheduler" /\ seen_plateau = SchedPatience + 1
                   /\ lr_halvings < 16)]_vars
    /\ [][lr_halvings' \in {lr_halvings, lr_halvings + 1}]_vars
    /\ []((pc = "early_stopping" /\ seen_since > SchedPatience)
              => lr_halvings >= 1)
C7_Witness ==
    /\ pc = "early_stopping"
    /\ seen_plateau = SchedPatience + 1
    /\ seen_since = SchedPatience + 1
    /\ lr_halvings = 1

\* what a step that reduces the learning rate does to the two counters
C8_Reduction ==
    (lr_halvings' # lr_halvings) =>
        /\ num_bad_epochs' = 0
        /\ patience_counter' = patience_counter
        /\ best_val_loss' = best_val_loss
\* C8: a learning-rate reduction resets the plateau counter only; the
\* early-stopping counter is neither reset nor delayed by it, so the break
\* comes after exactly patience epochs in a row without a strict fall,
\* however many reductions came in between.
C8_CountersIndependent ==
    /\ [][C8_Reduction]_vars
    /\ [](AfterEpoch => patience_counter = seen_since)
    /\ [](exit = "break" <=> (AfterEpoch /\ seen_since >= patience))
C8_Witness ==
    /\ exit = "break"
    /\ lr_halvings >= 1
    /\ num_bad_epochs >= 1
    /\ patience_counter = patience

\* the rows of window w are the seq_len rows generated, in this order, just
\* before the row of target t, in the same generation run
FromOneRun(w, t) ==
    \A k \in 1..Len(w) :
        /\ w[k].row.run = t.row.run
        /\ w[k].row.idx = t.row.idx - (Len(w) - k + 1)

\* C9: every window handed to the sequence model holds rows that were
\* consecutive, in generation order, in one generation run, and its target
\* is the label of the row generated right after them.
C9_WindowsFromOneRun ==
    stage = "windowed" =>
        /\ \A i \in 1..Len(X_train_seq) :
              FromOneRun(X_train_seq[i], y_train_seq[i])
        /\ \A i \in 1..Len(X_test_seq) :
              FromOneRun(X_test_seq[i], y_test_seq[i])

\* windows W and targets T are the sliding windows of length L over X and y
SlidingWindows(W, T, X, y, L) ==
    LET N == Len(X)
    IN  /\ Len(W) = N - L
        /\ Len(T) = N - L
        /\ \A i \in 0..(N - L - 1) :
              /\ Len(W[i + 1]) = L
              /\ \A j \in 0..(L - 1) : W[i + 1][j + 1] = X[i + j + 1]
              /\ T[i + 1] = y[i + L + 1]
        /\ T[1] = y[L + 1]
        /\ T[N - L] = y[N]
        /\ \A i \in 1..(N - L) : \A p \in 1..L : T[i] # y[p]

\* C10: for a stream of length N > L, create_sequences returns N - L pairs in
\* index order; window i holds positions i..i+L-1 and target i is the label
\* at position i+L, so the first target is position L, the last is position
\* N-1, and no position below L is a target.
C10_SlidingWindows ==
    /\ stage # "raised"
    /\ stage = "windowed" =>
        /\ Len(X_train) > sequence_length =>
              SlidingWindows(X_train_seq, y_train_seq, X_train, y_train,
                             sequence_length)
        /\ Len(X_test) > sequence_length =>
              SlidingWindows(X_test_seq, y_test_seq, X_test, y_test,
                             sequence_length)
C10_Witness ==
    /\ stage = "windowed"
    /\ Len(X_train) = 5
    /\ sequence_length = 2
    /\ Len(X_train_seq) = 3
    /\ y_train_seq[3] = Label(Row("train", 4))

\* C11: on a stream no longer than the window length, the empty stream
\* included, create_sequences returns no window and no target, and raises
\* nothing.
C11_ShortStreamNoWindows ==
    /\ stage # "raised"
    /\ stage = "windowed" =>
          /\ Len(X_train) <= sequence_length =>
                (X_train_seq = <<>> /\ y_train_seq = <<>>)
          /\ Len(X_test) <= sequence_length =>
                (X_test_seq = <<>> /\ y_test_seq = <<>>)
C11_Witness ==
    /\ stage = "windowed"
    /\ sequence_length = 2
    /\ Len(X_train) = 0
    /\ Len(X_test) = 2
    /\ X_train_seq = <<>>
    /\ y_test_seq = <<>>

\* C12: every row emitted by the random-sample and the character-sequence
\* generators, v2 and v3, has is_key_down = 1 if its label is Dit (0) or
\* Dah (1) and is_key_down = 0 otherwise.
C12_KeyDownIffPulse ==
    last_row # None =>
        /\ last_row.is_key_down \in {0, 1}
        /\ last_row.is_key_down = 1 <=> last_row.label \in {0, 1}
C12_Witness ==
    /\ generator = "generate_morse_dataset_v3"
    /\ last_row # None
    /\ last_row.label = 2
    /\ last_row.is_key_down = 0
    /\ seen_prev_label = 1

\* the float a is at least 1.0
AtLeastOne(a) == a.m > 0 /\ (a.e >= 0 \/ a.m >= 2^(0 - a.e))

\* C13: every row emitted by the two v3 generators has duration_ms >= 1.0,
\* whatever the jitter sample, zero and negative ones included: it is the
\* greater of the duration before jitter times the sample, and 1.0.
C13_DurationAtLeastOne ==
    (generator \in V3Generators /\ last_row # None) =>
        /\ AtLeastOne(last_row.duration_ms)
        /\ \E normal \in JitterVals :
              LET jittered == FMul(seen_base, normal)
              IN  last_row.duration_ms =
                     IF AtLeastOne(jittered) THEN jittered ELSE One
C13_Witness ==
    /\ generator = "generate_sequence_based_data_v3"
    /\ last_row # None
    /\ last_row.label = 4
    /\ last_row.duration_ms = One
    /\ seen_base # One

\* the labels a character of pattern pat must emit, but for the last
PulsesAndGaps(pat) ==
    [k \in 1..(2 * Len(pat) - 1) |->
        IF k % 2 = 0 THEN 2
        ELSE IF pat[(k + 1) \div 2] = "." THEN 0 ELSE 1]

\* C14: a character of the v3 sequence generator whose pattern has length k
\* emits 2k rows: its k pulses in pattern order, an ElementGap between each
\* two consecutive pulses and none after the last, then one LetterGap or
\* WordGap.
C14_CharacterEmitsPattern ==
    (generator = "generate_sequence_based_data_v3" /\ gen_pc = "for"
        /\ gen_i > 0) =>
        /\ Len(pattern) \in 1..5
        /\ Len(char_rows) = 2 * Len(pattern)
        /\ SubSeq(char_rows, 1, 2 * Len(pattern) - 1) = PulsesAndGaps(pattern)
        /\ char_rows[2 * Len(pattern)] \in {3, 4}
C14_Witness ==
    /\ generator = "generate_sequence_based_data_v3"
    /\ gen_pc = "for"
    /\ pattern = <<"-", "-", "-">>
    /\ char_rows = <<1, 2, 1, 2, 1, 4>>

\* C16: in generate_morse_dataset_v3 the speed is drawn at element 0 and again
\* at exactly the elements whose index is a multiple of 100: after n elements
\* there have been ceil(n / 100) draws, and every element is generated at the
\* speed drawn at the head of its block of 100.
C16_SpeedPerHundredSamples ==
    generator = "generate_morse_dataset_v3" =>
        /\ seen_draws = (gen_i + 99) \div 100
        /\ last_row # None =>
              /\ seen_wpm = seen_block_wpm
              /\ current_wpm = seen_block_wpm
C16_Witness ==
    /\ generator = "generate_morse_dataset_v3"
    /\ gen_i = 101
    /\ seen_draws = 2
    /\ seen_wpm = seen_block_wpm

\* the characters generate_sequence_based_data_v3 has begun
CharactersBegun ==
    gen_i + (IF gen_pc \in {"pulse", "gap", "terminal", "raised"} THEN 1 ELSE 0)

\* C17: in generate_sequence_based_data_v3 the speed is drawn at exactly the
\* characters whose index is a multiple of 50: after n characters begun
\* there have been ceil(n / 50) draws, whatever the number of rows, and every
\* row of a character is generated at the speed drawn at the head of the
\* character's block of 50.
C17_SpeedPerFiftyCharacters ==
    generator = "generate_sequence_based_data_v3" =>
        /\ seen_draws = (CharactersBegun + 49) \div 50
        /\ last_row # None =>
              /\ seen_wpm = seen_block_wpm
              /\ gen_pc \in {"gap", "terminal"} => current_wpm = seen_block_wpm
C17_Witness ==
    /\ generator = "generate_sequence_based_data_v3"
    /\ gen_i = 50
    /\ gen_pc = "terminal"
    /\ seen_draws = 2
    /\ Len(char_rows) = 5
    /\ seen_wpm = seen_block_wpm

\* the float c is n / w, w a float and n a natural, but for a relative error
\* of at most 2^(3 - FloatBits): the error of three roundings and of the
\* literal 1.2
WithinRounding(c, n, w) ==
    LET s == c.e + w.e
        lhs == IF s >= 0 THEN c.m * w.m * 2^s - n ELSE c.m * w.m - n * 2^(0 - s)
        rhs == IF s >= 0 THEN n ELSE n * 2^(0 - s)
        abs == IF lhs < 0 THEN 0 - lhs ELSE lhs
    IN  abs * 2^(FloatBits - 3) <= rhs
\* the statement of C18 as first made: the duration before jitter is the
\* float units * 1200 / w exactly, at a speed w > 0
C18_ExactDuration ==
    (generator \in V3Generators /\ last_row # None
        /\ FLess(FZero, seen_wpm)) =>
        /\ last_row.label \in 0..4
        /\ seen_units = CanonicalUnits[last_row.label]
        /\ seen_base = FRound(1200 * seen_units, seen_wpm.m, 0 - seen_wpm.e)

\* C18: the two v3 generators agree on the duration and label of every
\* class: each row has a label of 0..4, its duration before jitter is
\* dit_to_milliseconds of the units 1, 3, 1, 3, 7 of that label at the
\* current speed w, that is units * (1.2 / w) * 1000, which is
\* units * 1200 / w up to floating-point rounding.
C18_PoliciesAgree ==
    (generator \in V3Generators /\ last_row # None) =>
        /\ last_row.label \in 0..4
        /\ seen_units = CanonicalUnits[last_row.label]
        /\ seen_base = dit_to_milliseconds(CanonicalUnits[last_row.label], seen_wpm)
        /\ WithinRounding(seen_base, 1200 * seen_units, seen_wpm)
C18_Witness ==
    /\ generator = "generate_sequence_based_data_v3"
    /\ last_row # None
    /\ last_row.label = 4
    /\ seen_units = WORD_GAP
    /\ seen_wpm = Float(13, 1)
    /\ seen_base = dit_to_milliseconds(WORD_GAP, seen_wpm)

\* C19: generate_morse_dataset_v3 puts no constraint on consecutive labels:
\* while samples remain, whatever the row before (none at all, a pulse or any
\* gap), the next row can carry each of the five labels; so a gap can come
\* first and each class can follow each class, an ElementGap another
\* ElementGap.
C19_AnyLabelFollowsAny ==
    (generator = "generate_morse_dataset_v3" /\ gen_pc = "for" /\ gen_i < num) =>
        \A b \in 0..4 :
            ENABLED (DatasetV3Iteration /\ gen_i' = gen_i + 1
                        /\ last_row'.label = b)
C19_Witness ==
    /\ generator = "generate_morse_dataset_v3"
    /\ gen_i = 2
    /\ seen_prev_label = 2
    /\ last_row.label = 2

\* the float r is the natural k, but for a relative error of at most
\* (2n + 9) * 2^-FloatBits, n being the most rows a class has: the roundings
\* of two durations (3 each), two sums (n - 1 each), two means and a ratio
RatioWithin(r, k) ==
    LET scale == IF r.e >= 0 THEN 1 ELSE 2^(0 - r.e)
        diff == IF r.e >= 0 THEN r.m * 2^r.e - k ELSE r.m - k * scale
        abs == IF diff < 0 THEN 0 - diff ELSE diff
    IN  abs * 2^FloatBits <= (2 * MaxPerClass + 9) * k * scale
\* the statement of C15 as first made: the ratios are exactly 3, 3, 7 and 1
C15_ExactRatios ==
    (corpus_jitter = "zero" /\ val_pc = "returned") =>
        /\ ratios = [dah |-> IntFloats[3], letter |-> IntFloats[3],
                     word |-> IntFloats[7]]
        /\ 2 \in DOMAIN ratio => ratio[2] = One

\* C15: for a corpus generated at one speed with every jitter multiplier 1,
\* in which Dit, Dah, LetterGap and WordGap occur, the validator's ratios of
\* means Dah:Dit, LetterGap:Dit and WordGap:Dit are 3, 3 and 7, and
\* ElementGap:Dit is 1 if it occurs, up to floating-point rounding: within a
\* relative error of (2n + 9) * 2^-FloatBits for classes of at most n rows.
C15_RatiosUpToRounding ==
    (corpus_jitter = "zero" /\ val_pc = "returned") =>
        /\ RatioWithin(ratios.dah, 3)
        /\ RatioWithin(ratios.letter, 3)
        /\ RatioWithin(ratios.word, 7)
        /\ 2 \in DOMAIN ratio => RatioWithin(ratio[2], 1)
C15_Witness ==
    /\ val_pc = "returned"
    /\ corpus_jitter = "zero"
    /\ corpus_wpm = Float(13, 1)
    /\ DOMAIN results = 0..4
    /\ results[0].count = 1
    /\ results[1].count = 2

\* C20: validate_timing_standards never raises, whatever the corpus: empty,
\* without a Dit, or without a Dah, a LetterGap or a WordGap.
C20_ValidatorNeverRaises == val_pc # "raised"

\* C21: the value validate_timing_standards returns holds, for each of the
\* classes Dah, ElementGap, LetterGap and WordGap in the corpus, the class's
\* statistics together with the pass/fail verdict of its ratio to the Dit
\* mean.
C21_ReturnCarriesVerdicts ==
    val_pc = "returned" =>
        \A c \in DOMAIN val_return \ {0} :
            {"mean", "count", "valid"} \subseteq DOMAIN val_return[c]

\* the float r deviates from the natural k by less than the float t,
\* relatively and in exact arithmetic: |r - k| / k < t
DeviatesLess(r, k, t) ==
    LET s == IF r.e < t.e THEN r.e ELSE t.e
        up == IF s < 0 THEN 0 - s ELSE 0
        diff == r.m * 2^(r.e + up) - k * 2^up
        abs == IF diff < 0 THEN 0 - diff ELSE diff
    IN  abs < k * t.m * 2^(t.e + up)
\* the mean a is within 20% of k times the mean b, in exact arithmetic:
\* |a / b - k| / k <= 1/5
MeansWithinFifth(a, b, k) ==
    LET c == FAligned(a, b)
        diff == c.a - k * c.b
        abs == IF diff < 0 THEN 0 - diff ELSE diff
    IN  5 * abs <= k * c.b
C23_ScalerFitOnTrainingOnly ==
    stage \in {"split", "windowed", "raised"} =>
        /\ scaler.fit \subseteq RowsIn(X_train_split)
        /\ scaler.fit \cap RowsIn(X_val_split) = {}
        /\ scaler.fit \cap RowsIn(X_test) = {}

\* C24: a v3 generator called with a speed range that holds a speed of zero
\* or less does not return: no corpus comes back, and no row is generated at
\* a speed that is not positive.
C24_NonPositiveSpeedRejected ==
    (generator \in V3Generators /\ ~FLess(FZero, wpm_range[1])) =>
        /\ gen_pc # "done"
        /\ last_row # None => FLess(FZero, seen_wpm)

\* the ways out of the epoch loop: by the break of the early-stopping block
\* or by the end of range(epochs), and then through the restore step
C25_Exits ==
    /\ (exit' = "break" /\ exit # "break") => pc = "early_stopping"
    /\ (exit' = "exhausted" /\ exit # "exhausted") =>
          (pc = "for" /\ epoch = epochs /\ history_len = epochs)
    /\ (pc' = "restore" /\ pc # "restore") => exit' \in {"break", "exhausted"}
    /\ (pc' = "done" /\ pc # "done") => pc = "restore"
\* C25: on finite validation losses train_model returns, for every budget
\* and patience, after at most `epochs` epochs; the epoch loop is left in
\* exactly one of two ways, by the break at the end of an epoch or by the
\* end of the budget, and the restore step runs after either.
C25_TerminatesOneOfTwoWays ==
    /\ <>(pc = "done")
    /\ [](history_len <= epochs /\ epoch <= epochs)
    /\ [](pc \in {"restore", "done"} <=> exit \in {"break", "exhausted"})
    /\ [][C25_Exits]_vars
C25_Witness ==
    /\ pc = "done"
    /\ exit = "break"
    /\ history_len = epochs
    /\ epochs = MaxEpochs

\* best_val_loss stays, or falls to a finite loss
C26_Falls ==
    \/ best_val_loss' = best_val_loss
    \/ /\ best_val_loss'.kind = "fin"
       /\ best_val_loss.kind = "inf" \/ best_val_loss'.v < best_val_loss.v
\* C26: after every epoch best_val_loss is the least of the validation
\* losses seen so far in the run (+inf before the first; a nan is no
\* number and counts for nothing), and it never increases.
C26_BestIsMinimum ==
    /\ [](AfterEpoch => best_val_loss = seen_min)
    /\ [][C26_Falls]_vars
C26_Witness ==
    /\ pc = "for"
    /\ history_len >= 3
    /\ best_val_loss.kind = "fin"
    /\ val_loss.kind = "fin"
    /\ val_loss.v > best_val_loss.v
    /\ best_val_loss = seen_min

\* C27: with patience >= 1, patience_counter is always within 0..patience;
\* it equals patience only once the loop has been left by break, and no
\* epoch is under way while it does.
C27_CounterWithinPatience ==
    /\ patience_counter \in 0..patience
    /\ patience_counter = patience => (exit = "break" /\ pc \in {"restore", "done"})
    /\ pc \in {"train", "validate", "scheduler", "early_stopping"}
          => patience_counter < patience
C27_Witness ==
    /\ pc = "restore"
    /\ exit = "break"
    /\ patience_counter = patience
    /\ patience >= 2
    /\ best_model_state # None

\* the early-stopping block of the first epoch records an improvement
C28_FirstEpoch ==
    (pc = "early_stopping" /\ history_len = 1) =>
        /\ best_val_loss' = val_loss
        /\ patience_counter' = 0
        /\ best_model_state' # None
\* C28: on finite validation losses the first epoch always improves on the
\* initial best_val_loss of +inf: from the end of epoch 1 on
\* best_model_state is not None, so the restore step finds a snapshot to
\* load whenever an epoch ran, and finds none only when none ran.
C28_SnapshotFromFirstEpoch ==
    /\ [][C28_FirstEpoch]_vars
    /\ []((AfterEpoch /\ history_len >= 1) => best_model_state # None)
    /\ [](pc = "restore" => (best_model_state = None <=> epochs = 0))
C28_Witness ==
    /\ pc = "restore"
    /\ exit = "exhausted"
    /\ epochs = 1
    /\ best_model_state # None
    /\ best_val_loss = val_loss

\* C29: with an early-stopping patience above the scheduler's patience of 5
\* and positive finite losses, a run that stops early has had its learning
\* rate halved by then, and, the patience being 7 or more, before the epoch
\* that stops it begins; the learning rate 0.001 * 0.5^lr_halvings never
\* increases.
C29_HalvedBeforeEarlyStop ==
    /\ [](exit = "break" => lr_halvings >= 1)
    /\ []((pc \in {"train", "validate", "scheduler"}
              /\ patience >= SchedPatience + 2
              /\ patience_counter = patience - 1) => lr_halvings >= 1)
    /\ [][lr_halvings' >= lr_halvings]_vars
C29_Witness ==
    /\ pc = "done"
    /\ exit = "break"
    /\ patience = SchedPatience + 2
    /\ history_len = patience + 1
    /\ lr_halvings = 1

\* the two generators that emit characters: pulses, the gaps between them and
\* a closing gap
SequenceGenerators ==
    {"generate_sequence_based_data_v3", "generate_sequence_based_data"}
\* the last row is a gap inside the character in hand, after a pulse that is
\* not the last of its pattern
InnerGap ==
    /\ last_row # None
    /\ last_row.is_key_down = 0
    /\ char_rows # <<>>
    /\ Len(char_rows) < 2 * Len(pattern)
\* the last row is the gap that closes a character
ClosingGap ==
    /\ last_row # None
    /\ last_row.is_key_down = 0
    /\ ~InnerGap
\* the labels of the gaps that close a character, as the label tables name
\* them: LetterGap and WordGap in v3, WordSpace in v2
TerminalLabels ==
    IF generator = "generate_sequence_based_data_v3" THEN {3, 4} ELSE {3}
\* the labels the code gives to the gap that closes a character: v2 labels
\* its character space as an ElementSpace
ClosingLabels ==
    IF generator = "generate_sequence_based_data_v3" THEN {3, 4} ELSE {2, 3}
\* the stream so far starts with a pulse, and its last two rows differ in
\* key state; pulses are the rows labelled Dit or Dah
KeyStateAlternates ==
    last_row # None =>
        /\ last_row.is_key_down = (IF last_row.label \in {0, 1} THEN 1 ELSE 0)
        /\ seen_prev_label = 0 - 1 => last_row.is_key_down = 1
        /\ seen_prev_label # 0 - 1 =>
              (last_row.is_key_down = 1 <=> seen_prev_label \notin {0, 1})
\* the next row is a pulse of the character in hand
PulseOfSameCharacterFollows ==
    /\ gen_pc = "pulse"
    /\ sym_j < Len(pattern)
    /\ generator = "generate_sequence_based_data_v3" =>
          ~ZeroDivisionError(current_wpm)

\* the claim as stated, with the gaps told apart by their labels in both
\* generators
C30_AlternatesByLabel ==
    generator \in SequenceGenerators =>
        /\ KeyStateAlternates
        /\ (last_row # None /\ last_row.label = 2) =>
              /\ seen_prev_label \in {0, 1}
              /\ char_rows # <<>>
              /\ PulseOfSameCharacterFollows
        /\ (last_row # None /\ last_row.label \in TerminalLabels) =>
              seen_prev_label \in {0, 1}
        /\ gen_pc = "done" =>
              /\ seen_chars = num
              /\ num >= 1 =>
                    last_row # None /\ last_row.label \in TerminalLabels
\* C30: a stream of either sequence generator starts with a key-down pulse
\* and no two consecutive rows have the same is_key_down; a gap inside a
\* character is an ElementGap between two pulses of that character; the gap
\* that closes a character follows a pulse and is a LetterGap or WordGap in
\* v3, and in v2 a WordSpace or a character space labelled ElementSpace; a
\* finished stream of num_characters >= 1 characters ends with a closing gap
\* and holds num_characters closing gaps, and one of 0 characters is empty.
C30_AlternatesByPosition ==
    generator \in SequenceGenerators =>
        /\ KeyStateAlternates
        /\ InnerGap =>
              /\ last_row.label = 2
              /\ seen_prev_label \in {0, 1}
              /\ char_rows[Len(char_rows) - 1] \in {0, 1}
              /\ PulseOfSameCharacterFollows
        /\ ClosingGap =>
              /\ last_row.label \in ClosingLabels
              /\ seen_prev_label \in {0, 1}
              /\ gen_pc # "gap" /\ gen_pc # "terminal"
        /\ (last_row # None /\ last_row.is_key_down = 1) =>
              gen_pc \in {"gap", "terminal"}
        /\ gen_pc = "done" =>
              /\ seen_chars = num
              /\ IF num = 0 THEN last_row = None ELSE ClosingGap
C30_Witness ==
    /\ generator = "generate_sequence_based_data"
    /\ gen_pc = "done"
    /\ num = MaxSamplesV2
    /\ seen_chars = num
    /\ char_rows = <<1, 2, 0, 2>>
    /\ seen_prev_label = 0

====
